---- MODULE Spec2Model ----
(***************************************************************************)
(* State-machine model of runtime/lib/ffi_dynamic_library.cc: the FFI      *)
(* dynamic-library natives (open, process/executable library, lookup,      *)
(* providesSymbol) and the FFI native resolver FfiResolve, on the three    *)
(* kinds of host the file is compiled for (Windows, and the dlfcn hosts    *)
(* with RTLD_DEFAULT equal to the null handle or different from it).       *)
(*                                                                         *)
(* Pointers are integers, 0 is nullptr.  A C string holding an error is a  *)
(* record [block, text]: the heap block it lives in and its text, a        *)
(* sequence of fragments (the format string's pieces and its arguments).   *)
(* Every native runs on one thread as one step; the interleaving of        *)
(* threads inside LookupSymbolInProcess is the subject of SpecWarm.        *)
(***************************************************************************)
EXTENDS Integers, Sequences, FiniteSets, TLC

VARIABLES
    os,                     \* host the file was compiled for
    preloaded,              \* modules mapped before any dl_open, after the executable
    loaded,                 \* libraries mapped by dl_open, in load order
    procAccess,             \* what OpenProcess / EnumProcessModules do on this host
    dylib,                  \* the DynamicLibrary object the caller got last
    last,                   \* the last native / resolver call and its outcome
    co_task_mem_allocated,  \* the global of line 86
    cotask,                 \* CoTaskMem blocks: how often each was freed
    pc,                     \* per thread: position inside LookupSymbolInProcess
    tsym,                   \* per thread: the symbol being looked up
    tmine,                  \* per thread: the block its own CoTaskMemAlloc returned
    tret,                   \* per thread: the pointer its last call returned
    calls                   \* per thread: calls started

vars == <<os, preloaded, loaded, procAccess, dylib, last,
          co_task_mem_allocated, cotask, pc, tsym, tmine, tret, calls>>

loaderVars == <<os, preloaded, procAccess>>
threadVars == <<pc, tsym, tmine, tret, calls>>

(***************************************************************************)
(* Bounds of the model.                                                    *)
(***************************************************************************)
\* The largest declared argument count the bridge passes to FfiResolve.
MaxArgs == 1
\* Threads calling LookupSymbolInProcess concurrently, and calls per thread.
NumThreads == 2
MaxCalls == 2

(***************************************************************************)
(* Program constants.                                                      *)
(***************************************************************************)
nullptr == 0
\* const nullptr_t kWindowsDynamicLibraryProcessPtr = nullptr;
kWindowsDynamicLibraryProcessPtr == nullptr
\* HMODULE modules[1024];
kModulesCapacity == 1024

Hosts == {"windows", "linux", "macos"}
\* <dlfcn.h>: RTLD_DEFAULT is ((void*)0) on Linux, ((void*)-2) on macOS.
RTLD_DEFAULT == IF os = "linux" THEN 0 ELSE 0 - 2

(***************************************************************************)
(* The environment: files, modules, symbols, registered resolvers.         *)
(***************************************************************************)
Symbols == {"puts", "add_ints", "missing_fn"}
NoPath == "<nullptr>"
Paths == {"libfoo", "nonexistent"}
InstalledLibraries == {"libfoo"}
ModuleHandle == [exe |-> 64, libfoo |-> 128]
Exports == [exe |-> {"puts"}, libfoo |-> {"puts", "add_ints"}]
SymbolOffset == [puts |-> 1, add_ints |-> 2, missing_fn |-> 3]
\* A value that is the handle of no module.
BadHandle == 7

NumModules == 1 + preloaded + Len(loaded)
\* The handle of the i-th module in load order (1-based): the executable,
\* the preloaded modules (which export none of Symbols), the dl_open'ed ones.
HandleAt(i) ==
    IF i = 1 THEN ModuleHandle.exe
    ELSE IF i <= 1 + preloaded THEN 1000 + i
    ELSE ModuleHandle[loaded[i - 1 - preloaded]]
Mapped == {"exe"} \cup {loaded[i] : i \in 1..Len(loaded)}

\* GetProcAddress / dlsym on one module handle.
GetProcAddress(h, symbol) ==
    IF \E m \in DOMAIN ModuleHandle :
           ModuleHandle[m] = h /\ m \in Mapped /\ symbol \in Exports[m]
    THEN h + SymbolOffset[symbol]
    ELSE nullptr

Min(S) == CHOOSE x \in S : \A y \in S : x <= y

\* Memory events.
Ev(e, b) == [ev |-> e, block |-> b]
NullError == [block |-> "null", text |-> <<>>]
NoThrow == <<>>

\* OS::SCreate(nullptr, fmt, ...): a malloc'ed string.
OS_SCreate(text) == [block |-> "screate", text |-> text]

(***************************************************************************)
(* Library::LookupLibrary and Library::ffi_native_resolver: which asset    *)
(* has a library, and which library has a resolver installed.              *)
(***************************************************************************)
Assets == {"unknown_asset", "plain_asset", "my_asset"}
KnownLibraries == {"plain_asset", "my_asset"}
NoResolver == "none"
ffi_native_resolver == [plain_asset |-> NoResolver, my_asset |-> "my_resolver"]
\* The callback my_asset registered: (symbol, args_n) -> pointer or nullptr.
CallResolver(resolver, symbol, args_n) ==
    IF resolver = "my_resolver" /\ symbol = "add_ints" /\ args_n = 1
    THEN 900
    ELSE nullptr

(***************************************************************************)
(* Utils::LoadDynamicLibrary and Utils::ResolveSymbolInDynamicLibrary      *)
(* (runtime/platform/utils.cc, the Platform Loader of the specification):  *)
(* failure yields a null handle / pointer and a malloc'ed OS diagnostic,   *)
(* success a non-null one and no error.                                    *)
(***************************************************************************)
Utils_LoadDynamicLibrary(library_file, exeOk) ==
    IF library_file = NoPath
    THEN IF exeOk
         THEN [handle |-> ModuleHandle.exe, error |-> NullError, mem |-> <<>>]
         ELSE [handle |-> nullptr,
               error |-> [block |-> "utils", text |-> <<"os: cannot open the main program">>],
               mem |-> <<Ev("malloc", "utils")>>]
    ELSE IF library_file \in InstalledLibraries
         THEN [handle |-> ModuleHandle[library_file], error |-> NullError, mem |-> <<>>]
         ELSE [handle |-> nullptr,
               error |-> [block |-> "utils", text |-> <<"os: no such file or directory">>],
               mem |-> <<Ev("malloc", "utils")>>]

\* The modules mapped after Utils::LoadDynamicLibrary(library_file) returned.
LoadedAfter(library_file) ==
    IF library_file \in InstalledLibraries /\ library_file \notin Mapped
    THEN Append(loaded, library_file)
    ELSE loaded

Utils_ResolveSymbolInDynamicLibrary(handle, symbol) ==
    LET global == os # "windows" /\ handle = RTLD_DEFAULT
        hits == {i \in 1..NumModules : GetProcAddress(HandleAt(i), symbol) # nullptr}
        p == IF global
             THEN IF hits = {} THEN nullptr ELSE GetProcAddress(HandleAt(Min(hits)), symbol)
             ELSE GetProcAddress(handle, symbol)
        via == IF global THEN "native_global" ELSE "handle"
    IN  IF p # nullptr
        THEN [ptr |-> p, error |-> NullError, mem |-> <<>>,
              path |-> via, probed |-> 0, filled |-> 0]
        ELSE [ptr |-> nullptr,
              error |-> [block |-> "utils",
                         text |-> <<"os: undefined symbol: ", symbol>>],
              mem |-> <<Ev("malloc", "utils")>>,
              path |-> via, probed |-> 0, filled |-> 0]

(***************************************************************************)
(* LoadDynamicLibrary (lines 67-80).  errorProvided: the caller passed an  *)
(* |error| out-parameter (the default argument is nullptr).                *)
(***************************************************************************)
LoadDynamicLibrary(library_file, errorProvided, exeOk) ==
    LET u == Utils_LoadDynamicLibrary(library_file, exeOk)
    IN  IF u.error # NullError
        THEN IF errorProvided
             THEN [handle |-> u.handle,
                   error |-> OS_SCreate(
                       <<"Failed to load dynamic library '",
                         IF library_file # NoPath THEN library_file ELSE "<process>",
                         "': ">> \o u.error.text),
                   mem |-> u.mem \o <<Ev("read", "utils"), Ev("malloc", "screate"),
                                      Ev("free", "utils")>>]
             ELSE [handle |-> u.handle, error |-> NullError,
                   mem |-> u.mem \o <<Ev("free", "utils")>>]
        ELSE [handle |-> u.handle, error |-> NullError, mem |-> u.mem]

(***************************************************************************)
(* LookupSymbolInProcess (lines 90-124), after the warm-up of lines 92-95. *)
(* stack: what the memory behind modules[] holds during this call, by      *)
(* index; the loop of line 109 runs to cb_needed / sizeof(HMODULE), the    *)
(* number of modules of the process, not the number of entries filled.     *)
(***************************************************************************)
StackDomain == (kModulesCapacity + 1)..NumModules
Stacks == [StackDomain -> {BadHandle, ModuleHandle.libfoo}]

\* modules[i] as line 111 reads it (1-based).
Entry(i, stack) == IF i <= kModulesCapacity THEN HandleAt(i) ELSE stack[i]

\* Mutant: a failed EnumProcessModules returns null without setting |error|.
LookupSymbolInProcess_SilentEnumFailure(symbol, stack) ==
    IF procAccess = "open_fails"
    THEN [ptr |-> nullptr,
          error |-> OS_SCreate(<<"Failed to open current process.">>),
          mem |-> <<Ev("malloc", "screate")>>,
          path |-> "process_scan", probed |-> 0, filled |-> 0]
    ELSE IF procAccess = "enum_fails"
    THEN [ptr |-> nullptr, error |-> NullError, mem |-> <<>>,
          path |-> "process_scan", probed |-> 0, filled |-> 0]
    ELSE
        LET n == NumModules
            got == IF n <= kModulesCapacity THEN n ELSE kModulesCapacity
            hits == {i \in 1..n : GetProcAddress(Entry(i, stack), symbol) # nullptr}
        IN  IF hits # {}
            THEN [ptr |-> GetProcAddress(Entry(Min(hits), stack), symbol),
                  error |-> NullError, mem |-> <<>>,
                  path |-> "process_scan", probed |-> Min(hits), filled |-> got]
            ELSE [ptr |-> nullptr,
                  error |-> OS_SCreate(
                      <<"None of the loaded modules contained the requested symbol '",
                        symbol, "'.">>),
                  mem |-> <<Ev("malloc", "screate")>>,
                  path |-> "process_scan", probed |-> n, filled |-> got]

\* Mutant: the loop does not return at the first hit; the last hit wins.
LookupSymbolInProcess_LastHit(symbol, stack) ==
    IF procAccess = "open_fails"
    THEN [ptr |-> nullptr,
          error |-> OS_SCreate(<<"Failed to open current process.">>),
          mem |-> <<Ev("malloc", "screate")>>,
          path |-> "process_scan", probed |-> 0, filled |-> 0]
    ELSE
        LET enumOk == procAccess # "enum_fails"
            n == IF enumOk THEN NumModules ELSE 0
            got == IF n <= kModulesCapacity THEN n ELSE kModulesCapacity
            hits == {i \in 1..n : GetProcAddress(Entry(i, stack), symbol) # nullptr}
            lastHit == CHOOSE i \in hits : \A j \in hits : j <= i
        IN  IF hits # {}
            THEN [ptr |-> GetProcAddress(Entry(lastHit, stack), symbol),
                  error |-> NullError, mem |-> <<>>,
                  path |-> "process_scan", probed |-> n, filled |-> got]
            ELSE [ptr |-> nullptr,
                  error |-> OS_SCreate(
                      <<"None of the loaded modules contained the requested symbol '",
                        symbol, "'.">>),
                  mem |-> <<Ev("malloc", "screate")>>,
                  path |-> "process_scan", probed |-> n, filled |-> got]

LookupSymbolInProcess(symbol, stack) ==
    IF procAccess = "open_fails"
    THEN [ptr |-> nullptr,
          error |-> OS_SCreate(<<"Failed to open current process.">>),
          mem |-> <<Ev("malloc", "screate")>>,
          path |-> "process_scan", probed |-> 0, filled |-> 0]
    ELSE
        LET enumOk == procAccess # "enum_fails"
            n == IF enumOk THEN NumModules ELSE 0
            got == IF n <= kModulesCapacity THEN n ELSE kModulesCapacity
            hits == {i \in 1..n : GetProcAddress(Entry(i, stack), symbol) # nullptr}
        IN  IF hits # {}
            THEN [ptr |-> GetProcAddress(Entry(Min(hits), stack), symbol),
                  error |-> NullError, mem |-> <<>>,
                  path |-> "process_scan", probed |-> Min(hits), filled |-> got]
            ELSE [ptr |-> nullptr,
                  error |-> OS_SCreate(
                      <<"None of the loaded modules contained the requested symbol '",
                        symbol, "'.">>),
                  mem |-> <<Ev("malloc", "screate")>>,
                  path |-> "process_scan", probed |-> n, filled |-> got]

(***************************************************************************)
(* ResolveSymbol (lines 129-136) and SymbolExists (lines 138-154).         *)
(***************************************************************************)
\* Mutant: the process-wide handle is not recognized before the loader is asked.
ResolveSymbol_NoProcessDispatch(handle, symbol, stack) ==
    Utils_ResolveSymbolInDynamicLibrary(handle, symbol)

ResolveSymbol(handle, symbol, stack) ==
    IF os = "windows" /\ handle = kWindowsDynamicLibraryProcessPtr
    THEN LookupSymbolInProcess(symbol, stack)
    ELSE Utils_ResolveSymbolInDynamicLibrary(handle, symbol)

\* Mutant: the Windows branch of SymbolExists is missing.
SymbolExists_NoProcessDispatch(handle, symbol, stack) ==
    LET r == Utils_ResolveSymbolInDynamicLibrary(handle, symbol)
    IN  IF r.error # NullError
        THEN [exists |-> FALSE, res |-> r,
              mem |-> r.mem \o <<Ev("free", r.error.block)>>]
        ELSE [exists |-> TRUE, res |-> r, mem |-> r.mem]

\* Mutant: the error is discarded without free(error).
SymbolExists_Leaks(handle, symbol, stack) ==
    LET r == IF os # "windows"
             THEN Utils_ResolveSymbolInDynamicLibrary(handle, symbol)
             ELSE IF handle = nullptr
                  THEN LookupSymbolInProcess(symbol, stack)
                  ELSE Utils_ResolveSymbolInDynamicLibrary(handle, symbol)
    IN  IF r.error # NullError
        THEN [exists |-> FALSE, res |-> r, mem |-> r.mem]
        ELSE [exists |-> TRUE, res |-> r, mem |-> r.mem]

SymbolExists(handle, symbol, stack) ==
    LET r == IF os # "windows"
             THEN Utils_ResolveSymbolInDynamicLibrary(handle, symbol)
             ELSE IF handle = nullptr
                  THEN LookupSymbolInProcess(symbol, stack)
                  ELSE Utils_ResolveSymbolInDynamicLibrary(handle, symbol)
    IN  IF r.error # NullError
        THEN [exists |-> FALSE, res |-> r,
              mem |-> r.mem \o <<Ev("free", r.error.block)>>]
        ELSE [exists |-> TRUE, res |-> r, mem |-> r.mem]

(***************************************************************************)
(* The record of a call: its arguments, what it handed back (a return      *)
(* value or a thrown ArgumentError), the (pointer, error) pair the         *)
(* resolution function below it produced, the path it took, and its        *)
(* malloc / read / free events in program order.                           *)
(***************************************************************************)
NoCall ==
    [op |-> "none", name |-> "", handle |-> nullptr, symbol |-> "", args_n |-> 0,
     stack |-> <<>>, returned |-> FALSE, ret |-> nullptr, exists |-> FALSE,
     thrown |-> NoThrow, ptr |-> nullptr, error |-> NullError, via |-> "none",
     probed |-> 0, filled |-> 0, mem |-> <<>>]

NoLibrary == [handle |-> nullptr, via |-> "none"]

\* DEFINE_NATIVE_ENTRY(Ffi_dl_open, 0, 1), lines 156-167.
Ffi_dl_open(lib_path) ==
    LET r == LoadDynamicLibrary(lib_path, TRUE, TRUE)
    IN  IF r.error # NullError
        THEN [NoCall EXCEPT !.op = "Ffi_dl_open", !.name = lib_path,
                            !.ptr = r.handle, !.error = r.error,
                            !.thrown = r.error.text,
                            !.mem = r.mem \o <<Ev("read", r.error.block),
                                               Ev("free", r.error.block)>>]
        ELSE [NoCall EXCEPT !.op = "Ffi_dl_open", !.name = lib_path,
                            !.ptr = r.handle, !.returned = TRUE,
                            !.ret = r.handle, !.mem = r.mem]

\* DEFINE_NATIVE_ENTRY(Ffi_dl_processLibrary, 0, 0), lines 169-176.
Ffi_dl_processLibrary ==
    [NoCall EXCEPT !.op = "Ffi_dl_processLibrary", !.returned = TRUE,
                   !.ret = IF os # "windows" THEN RTLD_DEFAULT
                           ELSE kWindowsDynamicLibraryProcessPtr]

\* DEFINE_NATIVE_ENTRY(Ffi_dl_executableLibrary, 0, 0), lines 178-180.
Ffi_dl_executableLibrary(exeOk) ==
    LET r == LoadDynamicLibrary(NoPath, FALSE, exeOk)
    IN  [NoCall EXCEPT !.op = "Ffi_dl_executableLibrary", !.name = NoPath,
                       !.ptr = r.handle, !.error = r.error,
                       !.returned = TRUE, !.ret = r.handle, !.mem = r.mem]

\* DEFINE_NATIVE_ENTRY(Ffi_dl_lookup, 1, 2), lines 182-199.
Ffi_dl_lookup(handle, symbol, stack) ==
    LET r == ResolveSymbol(handle, symbol, stack)
        c == [NoCall EXCEPT !.op = "Ffi_dl_lookup", !.handle = handle,
                            !.symbol = symbol, !.stack = stack,
                            !.ptr = r.ptr, !.error = r.error, !.via = r.path,
                            !.probed = r.probed, !.filled = r.filled]
    IN  IF r.error # NullError
        THEN [c EXCEPT !.thrown = <<"Failed to lookup symbol '", symbol, "': ">>
                                  \o r.error.text,
                       !.mem = r.mem \o <<Ev("read", r.error.block),
                                          Ev("free", r.error.block)>>]
        ELSE [c EXCEPT !.returned = TRUE, !.ret = r.ptr, !.mem = r.mem]

\* DEFINE_NATIVE_ENTRY(Ffi_dl_providesSymbol, 0, 2), lines 208-215.
Ffi_dl_providesSymbol(handle, symbol, stack) ==
    LET e == SymbolExists(handle, symbol, stack)
    IN  [NoCall EXCEPT !.op = "Ffi_dl_providesSymbol", !.handle = handle,
                       !.symbol = symbol, !.stack = stack,
                       !.ptr = e.res.ptr, !.error = e.res.error,
                       !.via = e.res.path, !.probed = e.res.probed,
                       !.filled = e.res.filled,
                       !.returned = TRUE, !.exists = e.exists, !.mem = e.mem]

\* GetFfiNativeResolver, lines 218-227.
GetFfiNativeResolver(lib_url_str) ==
    IF lib_url_str \notin KnownLibraries
    THEN NoResolver
    ELSE ffi_native_resolver[lib_url_str]

\* FfiResolveWithFfiNativeResolver, lines 231-242.
FfiResolveWithFfiNativeResolver(resolver, symbol, args_n) ==
    LET result == CallResolver(resolver, symbol, args_n)
    IN  IF result = nullptr
        THEN [ptr |-> result,
              error |-> OS_SCreate(<<"Couldn't resolve function: '", symbol, "'">>),
              mem |-> <<Ev("malloc", "screate")>>,
              path |-> "resolver", probed |-> 0, filled |-> 0]
        ELSE [ptr |-> result, error |-> NullError, mem |-> <<>>,
              path |-> "resolver", probed |-> 0, filled |-> 0]

\* ThrowFfiResolveError, lines 245-253: the message thrown, and its events.
ThrowFfiResolveError(symbol, asset, error) ==
    [thrown |-> <<"Couldn't resolve native function '", symbol, "' in '", asset,
                  "' : ">> \o error.text \o <<".\n">>,
     mem |-> <<Ev("read", error.block), Ev("free", error.block)>>]

\* Mutant: a resolver that returns null falls through to the process-wide
\* lookup.
FfiResolve_FallsThrough(asset, symbol, args_n, stack) ==
    LET resolver == GetFfiNativeResolver(asset)
        own == FfiResolveWithFfiNativeResolver(resolver, symbol, args_n)
        r == IF resolver # NoResolver /\ own.error = NullError
             THEN own
             ELSE IF os # "windows"
                  THEN Utils_ResolveSymbolInDynamicLibrary(RTLD_DEFAULT, symbol)
                  ELSE LookupSymbolInProcess(symbol, stack)
        c == [NoCall EXCEPT !.op = "FfiResolve", !.name = asset,
                            !.symbol = symbol, !.args_n = args_n, !.stack = stack,
                            !.ptr = r.ptr, !.error = r.error, !.via = r.path,
                            !.probed = r.probed, !.filled = r.filled]
    IN  IF r.error # NullError
        THEN LET t == ThrowFfiResolveError(symbol, asset, r.error)
             IN  [c EXCEPT !.thrown = t.thrown, !.mem = r.mem \o t.mem]
        ELSE [c EXCEPT !.returned = TRUE, !.ret = r.ptr, !.mem = r.mem]

\* FfiResolve, lines 256-288.
FfiResolve(asset, symbol, args_n, stack) ==
    LET resolver == GetFfiNativeResolver(asset)
        r == IF resolver # NoResolver
             THEN FfiResolveWithFfiNativeResolver(resolver, symbol, args_n)
             ELSE IF os # "windows"
                  THEN Utils_ResolveSymbolInDynamicLibrary(RTLD_DEFAULT, symbol)
                  ELSE LookupSymbolInProcess(symbol, stack)
        c == [NoCall EXCEPT !.op = "FfiResolve", !.name = asset,
                            !.symbol = symbol, !.args_n = args_n, !.stack = stack,
                            !.ptr = r.ptr, !.error = r.error, !.via = r.path,
                            !.probed = r.probed, !.filled = r.filled]
    IN  IF r.error # NullError
        THEN LET t == ThrowFfiResolveError(symbol, asset, r.error)
             IN  [c EXCEPT !.thrown = t.thrown, !.mem = r.mem \o t.mem]
        ELSE [c EXCEPT !.returned = TRUE, !.ret = r.ptr, !.mem = r.mem]

(***************************************************************************)
(* The warm-up of LookupSymbolInProcess (lines 92-95), run by one thread   *)
(* without interruption: allocate a block, publish it in the global, free  *)
(* it.  A block is its index in cotask; cotask[b] counts its frees.        *)
(***************************************************************************)
WarmUp(called) ==
    IF called /\ co_task_mem_allocated = nullptr
    THEN /\ co_task_mem_allocated' = Len(cotask) + 1
         /\ cotask' = Append(cotask, 1)
    ELSE UNCHANGED <<co_task_mem_allocated, cotask>>

(***************************************************************************)
(* The natives as steps.  o is the record of the call (bound once: the     *)
(* call is made once).                                                     *)
(***************************************************************************)
Native_Ffi_dl_open ==
    \E lib_path \in Paths :
        \E o \in {Ffi_dl_open(lib_path)} :
            /\ last' = o
            /\ loaded' = LoadedAfter(lib_path)
            /\ dylib' = IF o.returned
                        THEN [handle |-> o.ret, via |-> "open"]
                        ELSE dylib
            /\ UNCHANGED <<loaderVars, co_task_mem_allocated, cotask, threadVars>>

Native_Ffi_dl_processLibrary ==
    /\ last' = Ffi_dl_processLibrary
    /\ dylib' = [handle |-> Ffi_dl_processLibrary.ret, via |-> "process"]
    /\ UNCHANGED <<loaderVars, loaded, co_task_mem_allocated, cotask, threadVars>>

Native_Ffi_dl_executableLibrary ==
    \E exeOk \in BOOLEAN :
        \E o \in {Ffi_dl_executableLibrary(exeOk)} :
            /\ last' = o
            /\ dylib' = [handle |-> o.ret, via |-> "executable"]
            /\ UNCHANGED <<loaderVars, loaded, co_task_mem_allocated, cotask,
                           threadVars>>

Native_Ffi_dl_lookup ==
    /\ dylib # NoLibrary
    /\ \E symbol \in Symbols, stack \in Stacks :
        \E o \in {Ffi_dl_lookup(dylib.handle, symbol, stack)} :
            /\ last' = o
            /\ WarmUp(o.via = "process_scan")
            /\ UNCHANGED <<loaderVars, loaded, dylib, threadVars>>

Native_Ffi_dl_providesSymbol ==
    /\ dylib # NoLibrary
    /\ \E symbol \in Symbols, stack \in Stacks :
        \E o \in {Ffi_dl_providesSymbol(dylib.handle, symbol, stack)} :
            /\ last' = o
            /\ WarmUp(o.via = "process_scan")
            /\ UNCHANGED <<loaderVars, loaded, dylib, threadVars>>

Bridge_FfiResolve ==
    \E asset \in Assets, symbol \in Symbols, args_n \in 0..MaxArgs, stack \in Stacks :
        \E o \in {FfiResolve(asset, symbol, args_n, stack)} :
            /\ last' = o
            /\ WarmUp(o.via = "process_scan")
            /\ UNCHANGED <<loaderVars, loaded, dylib, threadVars>>

Threads == 1..NumThreads

\* A Windows process starts with the executable alone, or with so many
\* modules that they fill modules[] exactly: one dl_open then takes the
\* module count past the buffer.
Init ==
    /\ os \in Hosts
    /\ preloaded \in IF os = "windows"
                     THEN {0, kModulesCapacity - 1}
                     ELSE {0}
    /\ procAccess \in IF os = "windows"
                      THEN {"ok", "open_fails", "enum_fails"}
                      ELSE {"ok"}
    /\ loaded = <<>>
    /\ dylib = NoLibrary
    /\ last = NoCall
    /\ co_task_mem_allocated = nullptr
    /\ cotask = <<>>
    /\ pc = [t \in Threads |-> "idle"]
    /\ tsym = [t \in Threads |-> "puts"]
    /\ tmine = [t \in Threads |-> nullptr]
    /\ tret = [t \in Threads |-> nullptr]
    /\ calls = [t \in Threads |-> 0]

Next ==
    \/ Native_Ffi_dl_open
    \/ Native_Ffi_dl_processLibrary
    \/ Native_Ffi_dl_executableLibrary
    \/ Native_Ffi_dl_lookup
    \/ Native_Ffi_dl_providesSymbol
    \/ Bridge_FfiResolve

Spec == Init /\ [][Next]_vars

(***************************************************************************)
(* LookupSymbolInProcess statement by statement, for threads that call it  *)
(* concurrently.  Nothing orders the accesses to co_task_mem_allocated:    *)
(* the read of line 94 may give the value another thread stored, or the    *)
(* value this thread stored at line 93 (kept in a register).               *)
(***************************************************************************)
T_Call(t) ==
    /\ pc[t] = "idle"
    /\ calls[t] < MaxCalls
    /\ \E symbol \in Symbols : tsym' = [tsym EXCEPT ![t] = symbol]
    /\ calls' = [calls EXCEPT ![t] = @ + 1]
    /\ pc' = [pc EXCEPT ![t] = "L92"]
    /\ UNCHANGED <<loaderVars, loaded, dylib, last, co_task_mem_allocated, cotask,
                   tmine, tret>>

\* if (co_task_mem_allocated == nullptr)
T_L92(t) ==
    /\ pc[t] = "L92"
    /\ pc' = [pc EXCEPT ![t] = IF co_task_mem_allocated = nullptr
                               THEN "L93" ELSE "L97"]
    /\ UNCHANGED <<loaderVars, loaded, dylib, last, co_task_mem_allocated, cotask,
                   tsym, tmine, tret, calls>>

\* co_task_mem_allocated = CoTaskMemAlloc(sizeof(intptr_t));
\* First the call: CoTaskMemAlloc returns a fresh block, which the thread
\* holds while the global is not yet written.
T_L93_alloc(t) ==
    /\ pc[t] = "L93"
    /\ cotask' = Append(cotask, 0)
    /\ tmine' = [tmine EXCEPT ![t] = Len(cotask) + 1]
    /\ pc' = [pc EXCEPT ![t] = "L93_store"]
    /\ UNCHANGED <<loaderVars, loaded, dylib, last, co_task_mem_allocated,
                   tsym, tret, calls>>

\* Then the assignment: the block the call returned is stored in the global.
T_L93_store(t) ==
    /\ pc[t] = "L93_store"
    /\ co_task_mem_allocated' = tmine[t]
    /\ pc' = [pc EXCEPT ![t] = "L94"]
    /\ UNCHANGED <<loaderVars, loaded, dylib, last, cotask, tsym, tmine, tret,
                   calls>>

\* CoTaskMemFree(co_task_mem_allocated);
T_L94(t) ==
    /\ pc[t] = "L94"
    /\ \E b \in {co_task_mem_allocated, tmine[t]} :
           cotask' = [cotask EXCEPT ![b] = @ + 1]
    /\ pc' = [pc EXCEPT ![t] = "L97"]
    /\ UNCHANGED <<loaderVars, loaded, dylib, last, co_task_mem_allocated,
                   tsym, tmine, tret, calls>>

\* Lines 97-123: the scan, and the return.
T_L97(t) ==
    /\ pc[t] = "L97"
    /\ \E stack \in Stacks :
           tret' = [tret EXCEPT ![t] = LookupSymbolInProcess(tsym[t], stack).ptr]
    /\ pc' = [pc EXCEPT ![t] = "idle"]
    /\ UNCHANGED <<loaderVars, loaded, dylib, last, co_task_mem_allocated, cotask,
                   tsym, tmine, calls>>

InitWarm == Init /\ os = "windows" /\ preloaded = 0

NextWarm ==
    \E t \in Threads :
        \/ T_Call(t)
        \/ T_L92(t)
        \/ T_L93_alloc(t)
        \/ T_L93_store(t)
        \/ T_L94(t)
        \/ T_L97(t)

SpecWarm == InitWarm /\ [][NextWarm]_vars

(***************************************************************************)
(* Properties.                                                             *)
(***************************************************************************)
\* The message names x: x is one of the arguments formatted into it.
Names(msg, x) == \E i \in 1..Len(msg) : msg[i] = x

HasResolver(asset) ==
    asset \in KnownLibraries /\ ffi_native_resolver[asset] # NoResolver

\* C1: for an asset with a registered resolver, FfiResolve never performs the
\* process-wide lookup: a non-null pointer from the resolver is returned as it
\* is, and a null one makes the call throw an error naming the symbol and the
\* asset, also when the process exports the symbol.
C1_ResolverOwnsResolution ==
    (last.op = "FfiResolve" /\ HasResolver(last.name)) =>
        LET p == CallResolver(ffi_native_resolver[last.name], last.symbol, last.args_n)
        IN  /\ last.via = "resolver"
            /\ last.probed = 0
            /\ p # nullptr =>
                   last.returned /\ last.ret = p /\ last.thrown = NoThrow
            /\ p = nullptr =>
                   /\ ~last.returned
                   /\ Names(last.thrown, last.symbol)
                   /\ Names(last.thrown, last.name)

\* The resolver of my_asset returned null for "puts", which the executable
\* exports, and the call threw.
C1_Witness ==
    /\ last.op = "FfiResolve"
    /\ last.name = "my_asset"
    /\ last.symbol = "puts"
    /\ GetProcAddress(ModuleHandle.exe, "puts") # nullptr
    /\ procAccess = "ok"
    /\ last.thrown # NoThrow

\* C2: for an asset with no registered resolver (no library, or a library
\* without a resolver) FfiResolve does what ResolveSymbol does on the handle of
\* Ffi_dl_processLibrary, given the same loader state and the same memory
\* behind the module buffer: the same path, success in the same cases with the
\* same pointer, failure in the same cases with the same underlying error.
C2_NoRegistrationIsProcessWide ==
    (last.op = "FfiResolve" /\ ~HasResolver(last.name)) =>
        LET r == ResolveSymbol(Ffi_dl_processLibrary.ret, last.symbol, last.stack)
        IN  /\ last.via = r.path
            /\ last.returned = (r.error = NullError)
            /\ last.returned => last.ret = r.ptr /\ last.thrown = NoThrow
            /\ ~last.returned => last.error = r.error /\ last.thrown # NoThrow

\* An asset without a library resolved "puts" to the executable's puts.
C2_Witness ==
    /\ last.op = "FfiResolve"
    /\ last.name = "unknown_asset"
    /\ last.symbol = "puts"
    /\ last.returned
    /\ last.ret = ModuleHandle.exe + SymbolOffset.puts

\* C3: Ffi_dl_providesSymbol answers true exactly when Ffi_dl_lookup of the
\* same handle and symbol, on the same loader state, returns without throwing,
\* and both take the same path (process scan, or the loader's lookup).
C3_ExistsIffResolves ==
    /\ last.op = "Ffi_dl_providesSymbol" =>
           LET r == ResolveSymbol(last.handle, last.symbol, last.stack)
           IN  last.exists = (r.error = NullError) /\ last.via = r.path
    /\ last.op = "Ffi_dl_lookup" =>
           LET e == SymbolExists(last.handle, last.symbol, last.stack)
           IN  last.returned = e.exists /\ last.via = e.res.path

\* On Windows, providesSymbol on the process library found a symbol by the scan.
C3_Witness ==
    /\ last.op = "Ffi_dl_providesSymbol"
    /\ os = "windows"
    /\ dylib.via = "process"
    /\ last.handle = kWindowsDynamicLibraryProcessPtr
    /\ last.via = "process_scan"
    /\ last.exists

ResolutionOps == {"Ffi_dl_lookup", "Ffi_dl_providesSymbol", "FfiResolve"}

\* C4: every resolution (process scan, per-handle lookup, resolver wrapper,
\* FfiResolve) ends with a non-null pointer and a null error, or with a null
\* pointer and a non-null error; a call that throws returns no pointer, and a
\* call that returns hands back a non-null pointer.
C4_PointerXorError ==
    last.op \in ResolutionOps =>
        /\ \/ last.ptr # nullptr /\ last.error = NullError
           \/ last.ptr = nullptr /\ last.error # NullError
        /\ last.op # "Ffi_dl_providesSymbol" =>
               /\ last.returned => last.ret # nullptr /\ last.thrown = NoThrow
               /\ ~last.returned => last.ret = nullptr /\ last.thrown # NoThrow

\* The scan ran with EnumProcessModules failing, and ended in an error.
C4_Witness ==
    /\ last.op \in ResolutionOps
    /\ last.via = "process_scan"
    /\ procAccess = "enum_fails"
    /\ last.ptr = nullptr
    /\ last.error # NullError

\* The events of one heap block, in program order.
EventsOn(mem, b) == SelectSeq(mem, LAMBDA e : e.block = b)
\* Nothing, or: malloc, then reads only, then one free.
FreedOnce(evs) ==
    \/ evs = <<>>
    \/ /\ Len(evs) >= 2
       /\ evs[1].ev = "malloc"
       /\ evs[Len(evs)].ev = "free"
       /\ \A k \in 2..(Len(evs) - 1) : evs[k].ev = "read"

\* C6: every error message malloc'ed during a call (by the loader or by
\* OS::SCreate) is freed exactly once before the call ends, never read or freed
\* after that, and no call touches a block it did not allocate; this holds on
\* the providesSymbol discard path and when no error out-parameter is passed.
C6_ErrorsFreedOnce ==
    /\ \A b \in {"utils", "screate"} : FreedOnce(EventsOn(last.mem, b))
    /\ \A i \in 1..Len(last.mem) : last.mem[i].block \in {"utils", "screate"}
    /\ last.error # NullError =>
           \E i \in 1..Len(last.mem) : last.mem[i] = Ev("free", last.error.block)

\* providesSymbol answered false: it was handed an error, and freed it.
C6_Witness ==
    /\ last.op = "Ffi_dl_providesSymbol"
    /\ ~last.exists
    /\ last.error # NullError
    /\ last.mem = <<Ev("malloc", last.error.block), Ev("free", last.error.block)>>

\* C5 (as claimed): an open that fails, of a named path or of the main
\* executable, throws an error (naming the path when there is one) and hands
\* the caller no library object.
C5_FailedOpenThrows ==
    (last.op \in {"Ffi_dl_open", "Ffi_dl_executableLibrary"} /\ last.ptr = nullptr) =>
        /\ ~last.returned
        /\ last.thrown # NoThrow
        /\ last.name # NoPath => Names(last.thrown, last.name)

\* C7 (as claimed): no library object made by Ffi_dl_open or
\* Ffi_dl_executableLibrary carries the handle of Ffi_dl_processLibrary.
C7_SentinelDistinct ==
    dylib.via \in {"open", "executable"} => dylib.handle # Ffi_dl_processLibrary.ret

\* C9 (as claimed): the scan reads only buffer entries below the capacity and
\* below the number of entries EnumProcessModules filled in.
C9_ScanWithinBuffer ==
    last.via = "process_scan" =>
        last.probed <= kModulesCapacity /\ last.probed <= last.filled

\* What line 111 finds in entry i of the last scan: the i-th module of the
\* enumeration while i is within the entries filled in, the memory behind the
\* buffer after that.
Probe(i) ==
    GetProcAddress(IF i <= last.filled THEN HandleAt(i) ELSE last.stack[i],
                   last.symbol)

\* The scan of n entries returned the pointer of the first entry, in
\* enumeration order, whose lookup is non-null, and read no later entry; or no
\* entry yields the symbol, and it returned null and the error that names the
\* symbol and says that none of the loaded modules contained it.
FirstHitOrNoneError(n) ==
    IF last.ptr # nullptr
    THEN /\ last.probed \in 1..n
         /\ last.ptr = Probe(last.probed)
         /\ \A j \in 1..(last.probed - 1) : Probe(j) = nullptr
         /\ last.error = NullError
    ELSE /\ last.probed = n
         /\ \A j \in 1..n : Probe(j) = nullptr
         /\ last.error.text =
                <<"None of the loaded modules contained the requested symbol '",
                  last.symbol, "'.">>
         /\ Names(last.error.text, last.symbol)

\* C10 (as claimed): every process scan returns the first non-null hit in
\* enumeration order without probing further, or else null and an error that
\* names the symbol and says no loaded module contained it.
C10_FirstHitOrNoneErrorAlways ==
    last.via = "process_scan" =>
        FirstHitOrNoneError(IF procAccess = "ok" THEN NumModules ELSE 0)

\* C10 (amended): as claimed when the current process could be opened; when
\* OpenProcess fails nothing is scanned and the scan returns null with the
\* error "Failed to open current process.", which does not name the symbol.
C10_FirstHitWhenOpened ==
    last.via = "process_scan" =>
        IF procAccess = "open_fails"
        THEN /\ last.ptr = nullptr
             /\ last.probed = 0
             /\ last.error.text = <<"Failed to open current process.">>
             /\ ~Names(last.error.text, last.symbol)
        ELSE FirstHitOrNoneError(IF procAccess = "ok" THEN NumModules ELSE 0)

\* The executable and libfoo both export "puts"; the scan returned the
\* executable's, the first in enumeration order, after one probe.
C10_Witness ==
    /\ last.via = "process_scan"
    /\ last.symbol = "puts"
    /\ procAccess = "ok"
    /\ "libfoo" \in Mapped
    /\ GetProcAddress(ModuleHandle.libfoo, "puts") # nullptr
    /\ last.ptr = ModuleHandle.exe + SymbolOffset.puts
    /\ last.probed = 1

\* A thread that has executed the store of line 93 (in this call or in an
\* earlier one): it holds a block and is not between its CoTaskMemAlloc and
\* the store.
Stored(t) == tmine[t] # nullptr /\ pc[t] # "L93_store"

\* C8 (as claimed): under every interleaving of the threads, no warm-up block
\* is freed twice, every block is freed once no thread is between its
\* CoTaskMemAlloc and its CoTaskMemFree, and once a thread has stored a block
\* in co_task_mem_allocated the global is never null again.
C8_WarmUpSafe ==
    /\ \A b \in 1..Len(cotask) : cotask[b] <= 1
    /\ (\A t \in Threads : pc[t] \notin {"L93_store", "L94"}) =>
           \A b \in 1..Len(cotask) : cotask[b] = 1
    /\ (\E t \in Threads : Stored(t)) => co_task_mem_allocated # nullptr

====
